---- MODULE Spec2Model ----
(***************************************************************************)
(* A model of las-bounds (src/src/main.rs): one run of `main`, which       *)
(* resolves an optional EPSG code, creates a shapefile dataset with one    *)
(* polygon layer "bounds", lists the *.las entries of a directory and      *)
(* appends one feature per listed path.                                    *)
(*                                                                         *)
(* Strings that the program inspects (file names, paths, the --epsg        *)
(* value) are sequences of one-character strings.  An Option<T> is a       *)
(* sequence of length 0 (None) or 1 (Some).                                *)
(***************************************************************************)
EXTENDS Integers, Sequences, FiniteSets, TLC

\* ------------------------------------------------------------------ bounds
\* Largest number of immediate entries of the scanned directory.
MaxEntries == 3

\* ----------------------------------------------------------------- Option
None == <<>>
Some(x) == <<x>>
IsSome(o) == Len(o) = 1

\* --------------------------------------------------------- std::path::Path
Sep == "/"
Dot == "."
\* A byte that is not valid UTF-8, and the replacement character U+FFFD.
BadByte == "\\xFF"
Replacement == "\\uFFFD"

\* The largest index k of s with s[k] = c, or 0.
LastIndexOf(s, c) ==
  LET hits == {k \in 1..Len(s) : s[k] = c}
  IN  IF hits = {} THEN 0 ELSE CHOOSE k \in hits : \A j \in hits : j <= k

\* Path::join(dir, name)
Join(dir, name) == dir \o <<Sep>> \o name

\* Path::file_name: the final component, None when the path ends in "..".
FileName(path) ==
  LET k    == LastIndexOf(path, Sep)
      last == SubSeq(path, k + 1, Len(path))
  IN  IF last = <<>> \/ last = <<Dot, Dot>> THEN None ELSE Some(last)

\* Path::extension: the part of file_name after its last ".", None when
\* there is no file name, no "." in it, or it begins with its only ".".
Extension(path) ==
  LET fn == FileName(path)
  IN  IF ~IsSome(fn) THEN None
      ELSE LET name == fn[1]
               k    == LastIndexOf(name, Dot)
           IN  IF k <= 1 THEN None
               ELSE Some(SubSeq(name, k + 1, Len(name)))

\* Path::with_extension(ext): the file name's extension replaced by ext.
WithExtension(path, ext) ==
  LET fn == FileName(path)
  IN  IF ~IsSome(fn) THEN path
      ELSE LET k    == LastIndexOf(path, Sep)
               d    == LastIndexOf(fn[1], Dot)
               stem == IF d <= 1 THEN fn[1] ELSE SubSeq(fn[1], 1, d - 1)
           IN  SubSeq(path, 1, k) \o stem \o <<Dot>> \o ext

\* OsStr::to_str: Some only for valid UTF-8.
ToStr(os) ==
  IF \E k \in 1..Len(os) : os[k] = BadByte THEN None ELSE Some(os)

\* OsStr::to_string_lossy: invalid bytes become U+FFFD.
ToStringLossy(os) ==
  [k \in 1..Len(os) |-> IF os[k] = BadByte THEN Replacement ELSE os[k]]

\* ------------------------------------------------------- str::parse::<u32>
Digits == <<"0", "1", "2", "3", "4", "5", "6", "7", "8", "9">>
IsDigit(c) == \E d \in 1..Len(Digits) : Digits[d] = c
DigitVal(c) == (CHOOSE d \in 1..Len(Digits) : Digits[d] = c) - 1

\* u32::MAX = 4294967295, digit by digit.
U32MaxDigits == <<4, 2, 9, 4, 9, 6, 7, 2, 9, 5>>

RECURSIVE StripZeros(_)
StripZeros(ds) ==
  IF Len(ds) > 1 /\ ds[1] = 0 THEN StripZeros(Tail(ds)) ELSE ds

\* a > b for digit sequences of equal length
RECURSIVE LexGreater(_, _)
LexGreater(a, b) ==
  IF a = <<>> THEN FALSE
  ELSE IF a[1] # b[1] THEN a[1] > b[1]
  ELSE LexGreater(Tail(a), Tail(b))

\* The value does not fit 32 bits (checked_mul / checked_add overflow).
OverflowsU32(ds) ==
  \/ Len(ds) > Len(U32MaxDigits)
  \/ Len(ds) = Len(U32MaxDigits) /\ LexGreater(ds, U32MaxDigits)

\* Variant: the range check is lost (the value wraps instead of failing).
ParseU32Wrapping(s) ==
  LET body == IF Len(s) > 0 /\ s[1] = "+" THEN Tail(s) ELSE s
  IN  IF body = <<>> THEN None
      ELSE IF \E k \in 1..Len(body) : ~IsDigit(body[k]) THEN None
      ELSE Some(StripZeros([k \in 1..Len(body) |-> DigitVal(body[k])]))

\* s.parse::<u32>().ok(): an optional "+", then one or more decimal digits
\* whose value fits u32.  The value is kept as its canonical digit sequence.
ParseU32(s) ==
  LET body == IF Len(s) > 0 /\ s[1] = "+" THEN Tail(s) ELSE s
  IN  IF body = <<>> THEN None
      ELSE IF \E k \in 1..Len(body) : ~IsDigit(body[k]) THEN None
      ELSE LET ds == StripZeros([k \in 1..Len(body) |-> DigitVal(body[k])])
           IN  IF OverflowsU32(ds) THEN None ELSE Some(ds)


\* ------------------------------------------------------------ environment
Str(s) == <<s>>

\* Candidate file names.
NameALas   == <<"a", ".", "l", "a", "s">>
NameBLas   == <<"b", ".", "l", "a", "s">>
NameUpper  == <<"c", ".", "L", "A", "S">>
NameTxt    == <<"d", ".", "t", "x", "t">>
NameNoExt  == <<"l", "a", "s">>
NameHidden == <<".", "l", "a", "s">>
NameBad    == <<BadByte, ".", "l", "a", "s">>
NameErr    == <<"u", ".", "l", "a", "s">>
NameSub    == <<"s", "u", "b">>
NameLasDir == <<"e", ".", "l", "a", "s">>
NameChild  == <<"x", ".", "l", "a", "s">>

\* One io::Result<DirEntry> of read_dir: ok = FALSE is an entry whose read
\* failed; a directory has children.
File(n)   == [name |-> n, isDir |-> FALSE, ok |-> TRUE,  children |-> {}]
Broken(n) == [name |-> n, isDir |-> FALSE, ok |-> FALSE, children |-> {}]
Dir(n)    == [name |-> n, isDir |-> TRUE,  ok |-> TRUE,  children |-> {NameChild}]

Candidates ==
  { File(NameALas), File(NameBLas), File(NameUpper), File(NameTxt),
    File(NameNoExt), File(NameHidden), File(NameBad), Broken(NameErr),
    Dir(NameSub), Dir(NameLasDir) }

\* The DIRECTORY argument.
DirPath == <<"d">>

\* Values of --epsg on the command line (None: option absent).
EpsgArgs ==
  { None,
    Some(<<"4", "3", "2", "6">>),
    Some(<<"+", "4", "3", "2", "6">>),
    Some(<<"9">>),
    Some(<<"a">>),
    Some(<<"-", "1">>),
    Some(<<>>),
    Some(<<"4", "2", "9", "4", "9", "6", "7", "2", "9", "6">>) }

\* The codes the coordinate-system backend resolves.
EpsgKnown == { <<4, 3, 2, 6>> }

\* Header bounds a LAS file may carry: min and max of (x, y, z).
HeaderBounds ==
  { [min |-> <<1, 2, 3>>, max |-> <<4, 5, 6>>],
    [min |-> <<0, 0, 0>>, max |-> <<10, 10, 5>>] }

\* ------------------------------------------------------------------ state
VARIABLES
  args,           \* clap matches: [epsg : Option<chars>]
  fs,             \* the scanned directory: [opens, entries]
  pc,             \* position of main
  srs,            \* Option<SpatialRef>
  resolverCalls,  \* calls of SpatialRef::from_epsg
  ds,             \* Option<Dataset>: [path, layers]
  paths,          \* Vec<PathBuf> returned by list_las
  scanned,        \* read_dir was called
  i,              \* index of the loop over paths (0-based)
  opened,         \* calls of Reader::from_path: [path, header]
  stdout,         \* progress lines
  err,            \* Option<LasBoundsError> main returned
  stderr,         \* the message the runtime prints for Err
  exitCode        \* Option<exit status>

vars == <<args, fs, pc, srs, resolverCalls, ds, paths, scanned, i, opened,
          stdout, err, stderr, exitCode>>

\* ------------------------------------------------------- LasBoundsError
GdalError(e) == [kind |-> "GdalError", inner |-> e]
IOError(e)   == [kind |-> "IOError",   inner |-> e]
LASError(e)  == [kind |-> "LASError",  inner |-> e]
Custom(s)    == [kind |-> "Custom",    inner |-> s]

\* impl fmt::Display for LasBoundsError
Display(e) ==
  CASE e.kind = "GdalError" -> Str("GdalError: TODO")
    [] e.kind = "IOError"   -> Str("IOError: ") \o e.inner
    [] e.kind = "LASError"  -> Str("LASError: ") \o e.inner
    [] e.kind = "Custom"    -> Str("Custom: ") \o e.inner

\* impl fmt::Debug for LasBoundsError
Debug(e) == Display(e)

\* main returns Err(e): the runtime prints "Error: {:?}" and exits with 1.
Fail(e) ==
  /\ err' = Some(e)
  /\ stderr' = Str("Error: ") \o Debug(e)
  /\ exitCode' = Some(1)
  /\ pc' = "failed"

\* ------------------------------------------------------------------- Init
DistinctNames(S) == \A a, b \in S : a.name = b.name => a = b

Init ==
  /\ args \in [epsg : EpsgArgs]
  /\ fs \in [opens : BOOLEAN,
             entries : {S \in SUBSET Candidates :
                          Cardinality(S) <= MaxEntries /\ DistinctNames(S)}]
  /\ pc = "srs"
  /\ srs = None
  /\ resolverCalls = 0
  /\ ds = None
  /\ paths = <<>>
  /\ scanned = FALSE
  /\ i = 0
  /\ opened = <<>>
  /\ stdout = <<>>
  /\ err = None
  /\ stderr = <<>>
  /\ exitCode = None

\* ------------------------------------------------------ main, lines 155-158
\* matches.value_of("epsg").and_then(|s| s.parse::<u32>().ok())
EpsgOption == IF IsSome(args.epsg) THEN ParseU32(args.epsg[1]) ELSE None

\* SpatialRef::from_epsg
FromEpsg(code) == IF code \in EpsgKnown THEN Some(code) ELSE None

\* Variant: a failed resolution is dropped and the run goes on without srs.
ResolveSrsLenient ==
  /\ pc = "srs"
  /\ resolverCalls' = resolverCalls + (IF IsSome(EpsgOption) THEN 1 ELSE 0)
  /\ srs' = IF IsSome(EpsgOption) THEN FromEpsg(EpsgOption[1]) ELSE None
  /\ pc' = "create_shp"
  /\ UNCHANGED <<args, fs, ds, paths, scanned, i, opened, stdout, err, stderr,
                 exitCode>>

ResolveSrs ==
  /\ pc = "srs"
  /\ IF IsSome(EpsgOption)
       THEN /\ resolverCalls' = resolverCalls + 1
            /\ IF IsSome(FromEpsg(EpsgOption[1]))
                 THEN /\ srs' = FromEpsg(EpsgOption[1])
                      /\ pc' = "create_shp"
                      /\ UNCHANGED <<err, stderr, exitCode>>
                 ELSE /\ Fail(GdalError(Str("from_epsg")))
                      /\ UNCHANGED srs
       ELSE /\ pc' = "create_shp"
            /\ UNCHANGED <<srs, resolverCalls, err, stderr, exitCode>>
  /\ UNCHANGED <<args, fs, ds, paths, scanned, i, opened, stdout>>


\* ------------------------------------------------------------- create_shp
\* dir_path.with_extension("shp")
ShpPath == WithExtension(DirPath, <<"s", "h", "p">>)

\* Driver::get("ESRI Shapefile")? then driver.create(shp)?
CreateShp ==
  /\ pc = "create_shp"
  /\ \E outcome \in {"ok", "no_driver", "create_failed"} :
       IF outcome = "ok"
         THEN /\ ds' = Some([path |-> ShpPath, layers |-> <<>>])
              /\ pc' = "create_layer"
              /\ UNCHANGED <<err, stderr, exitCode>>
         ELSE /\ Fail(GdalError(Str(outcome)))
              /\ UNCHANGED ds
  /\ UNCHANGED <<args, fs, srs, resolverCalls, paths, scanned, i, opened,
                 stdout>>

\* ----------------------------------------------------------- create_layer
\* The fields create_layer declares, in order.
FieldDefs ==
  << [name |-> "name", type |-> "OFTString"],
     [name |-> "path", type |-> "OFTString"] >>

\* ds.create_layer_ext("bounds", srs.as_ref(), wkbPolygon)
NewLayer(s) ==
  [name |-> "bounds", srs |-> s, geomType |-> "wkbPolygon",
   defn |-> <<>>, features |-> <<>>]

\* layer.create_defn_fields(..), stopped by an error after `done` fields
\* (done = Len(FieldDefs): every field was added).
\* Variant: only the first field of the slice is declared.
CreateDefnFieldsFirstOnly(layer, done) ==
  [layer EXCEPT !.defn = layer.defn \o SubSeq(FieldDefs, 1, IF done > 0 THEN 1 ELSE 0)]

CreateDefnFields(layer, done) ==
  [layer EXCEPT !.defn = layer.defn \o SubSeq(FieldDefs, 1, done)]

CreateLayer ==
  /\ pc = "create_layer"
  /\ \E layerOk \in BOOLEAN, done \in 0..Len(FieldDefs) :
       IF ~layerOk
         THEN /\ Fail(GdalError(Str("create_layer_ext")))
              /\ UNCHANGED ds
         ELSE /\ ds' = Some([ds[1] EXCEPT !.layers =
                         Append(@, CreateDefnFields(NewLayer(srs), done))])
              /\ IF done = Len(FieldDefs)
                   THEN /\ pc' = "list_las"
                        /\ UNCHANGED <<err, stderr, exitCode>>
                   ELSE Fail(GdalError(Str("create_defn_fields")))
  /\ UNCHANGED <<args, fs, srs, resolverCalls, paths, scanned, i, opened,
                 stdout>>

\* --------------------------------------------------------------- list_las
\* The orders in which read_dir may yield the entries of S.
Orders(S) ==
  {o \in [1..Cardinality(S) -> S] : \A a, b \in DOMAIN o : o[a] = o[b] => a = b}

\* .filter_map(|entry| entry.ok().map(|entry| entry.path()))
RECURSIVE OkPaths(_)
OkPaths(order) ==
  IF order = <<>> THEN <<>>
  ELSE (IF order[1].ok THEN <<Join(DirPath, order[1].name)>> ELSE <<>>)
       \o OkPaths(Tail(order))

\* |path| path.extension().and_then(|ext| ext.to_str())
\*            .filter(|&ext| ext == "las").is_some()
LasExt == <<"l", "a", "s">>
\* Variant: the path is matched by its ending instead of its extension.
IsLasEndsWith(path) ==
  Len(path) >= Len(LasExt)
  /\ SubSeq(path, Len(path) - Len(LasExt) + 1, Len(path)) = LasExt

IsLas(path) ==
  LET ext == IF IsSome(Extension(path)) THEN ToStr(Extension(path)[1]) ELSE None
  IN  IsSome(ext) /\ ext[1] = LasExt

\* The Vec list_las builds from one enumeration order.
ListOf(order) == SelectSeq(OkPaths(order), IsLas)

\* Variant: a directory that cannot be opened is read as an empty one.
ReadDirLenient == Some(IF fs.opens THEN Orders(fs.entries) ELSE {<<>>})

\* dir.read_dir(): None for the io::Error of a directory that cannot be
\* opened, else the orders in which the entries may be yielded.
ReadDir == IF fs.opens THEN Some(Orders(fs.entries)) ELSE None

ListLas ==
  /\ pc = "list_las"
  /\ scanned' = TRUE
  /\ IF ~IsSome(ReadDir)
       THEN /\ Fail(IOError(Str("No such file or directory (os error 2)")))
            /\ UNCHANGED paths
       ELSE /\ \E order \in ReadDir[1] : paths' = ListOf(order)
            /\ pc' = "loop"
            /\ UNCHANGED <<err, stderr, exitCode>>
  /\ UNCHANGED <<args, fs, srs, resolverCalls, ds, i, opened, stdout>>

\* ------------------------------------------------------------ read_bounds
\* The directory entry a listed path names.
EntryOf(path) == CHOOSE e \in fs.entries : Join(DirPath, e.name) = path

\* Outcomes of Reader::from_path(las) then header.bounds(): Some(bounds), or
\* None for a las::Error.  A directory cannot be read as a LAS file.
ReadBounds(path) ==
  IF EntryOf(path).isDir THEN {None}
  ELSE {None} \cup {Some(b) : b \in HeaderBounds}

\* ----------------------------------------------------------- write_bounds
\* Geometry::bbox(w, s, e, n): the rectangle of the four extents.
Bbox(w, s, e, n) == [w |-> w, s |-> s, e |-> e, n |-> n]

\* layer.create_feature_fields(geometry, field_names, values)
CreateFeatureFields(layer, geometry, names, values) ==
  [layer EXCEPT !.features =
     Append(@, [geometry |-> geometry,
                fields |-> [f \in {names[k] : k \in DOMAIN names} |->
                              values[CHOOSE k \in DOMAIN names : names[k] = f]]])]

\* Variant: the two attribute values are passed in the wrong order.
WriteFeatureSwapped(layer, las, bounds) ==
  CreateFeatureFields(
    layer,
    Bbox(bounds.min[1], bounds.min[2], bounds.max[1], bounds.max[2]),
    <<"name", "path">>,
    <<ToStringLossy(las), ToStringLossy(FileName(las)[1])>>)

\* The feature write_bounds makes of a path and its header bounds.
WriteFeature(layer, las, bounds) ==
  CreateFeatureFields(
    layer,
    Bbox(bounds.min[1], bounds.min[2], bounds.max[1], bounds.max[2]),
    <<"name", "path">>,
    <<ToStringLossy(FileName(las)[1]), ToStringLossy(las)>>)

\* Variant: a failed file is skipped and the loop goes on.
AbortWriteSkips(e) ==
  /\ i' = i + 1
  /\ UNCHANGED <<ds, pc, err, stderr, exitCode>>

\* write_bounds(&p, &mut layer)?: an error ends the loop and main.
AbortWrite(e) ==
  /\ Fail(e)
  /\ UNCHANGED <<ds, i>>

\* One iteration of the loop of main: the progress line, then write_bounds.
WriteBounds ==
  /\ pc = "loop"
  /\ i < Len(paths)
  /\ LET las == paths[i + 1] IN
     /\ stdout' = Append(stdout, [index |-> i + 1, total |-> Len(paths),
                                  path |-> ToStringLossy(las)])
     /\ \E header \in ReadBounds(las), gdal \in {"ok", "bbox", "create_feature"} :
          /\ opened' = Append(opened, [path |-> las, header |-> header])
          /\ IF ~IsSome(header)
               THEN AbortWrite(LASError(Str("las::Error")))
             ELSE IF ~IsSome(FileName(las))
               THEN AbortWrite(Custom(Str("Could not get file name: ")
                                      \o ToStringLossy(las)))
             ELSE IF gdal # "ok"
               THEN AbortWrite(GdalError(Str(gdal)))
             ELSE /\ ds' = Some([ds[1] EXCEPT !.layers[1] =
                                   WriteFeature(@, las, header[1])])
                  /\ i' = i + 1
                  /\ UNCHANGED <<pc, err, stderr, exitCode>>
  /\ UNCHANGED <<args, fs, srs, resolverCalls, paths, scanned>>

\* The loop is over: main returns Ok(()).
Finish ==
  /\ pc = "loop"
  /\ i = Len(paths)
  /\ pc' = "done"
  /\ exitCode' = Some(0)
  /\ UNCHANGED <<args, fs, srs, resolverCalls, ds, paths, scanned, i, opened,
                 stdout, err, stderr>>

Next ==
  \/ ResolveSrs
  \/ CreateShp
  \/ CreateLayer
  \/ ListLas
  \/ WriteBounds
  \/ Finish

Spec == Init /\ [][Next]_vars


\* ================================================================ claims
HasLayer == IsSome(ds) /\ Len(ds[1].layers) >= 1
TheLayer == ds[1].layers[1]
Features == IF HasLayer THEN TheLayer.features ELSE <<>>
SeqSet(q) == {q[k] : k \in DOMAIN q}

\* list_las returned Ok
Listed == scanned /\ fs.opens

\* A name with a non-empty stem followed by ".las".
DotLas == <<".", "l", "a", "s">>
HasLasSuffix(name) ==
  /\ Len(name) > Len(DotLas)
  /\ SubSeq(name, Len(name) - Len(DotLas) + 1, Len(name)) = DotLas

\* Every entry is a file with extension las or an entry of another or no
\* extension.
OnlyPlainEntries == \A e \in fs.entries : e.isDir => ~HasLasSuffix(e.name)

MatchingFiles ==
  {Join(DirPath, e.name) :
     e \in {x \in fs.entries : x.ok /\ ~x.isDir /\ HasLasSuffix(x.name)}}

\* C1: for a directory of N files with extension exactly "las" and M entries
\* of another or no extension, list_las returns exactly the paths of the N
\* files, each once, whatever the order of enumeration; entries whose read
\* failed are skipped and do not fail the scan.
C1_ScannerExact ==
  (Listed /\ OnlyPlainEntries) =>
     /\ opened = <<>> => pc \in {"loop", "done"}
     /\ SeqSet(paths) = MatchingFiles
     /\ Len(paths) = Cardinality(MatchingFiles)

\* Two matching files listed in an order that is not the sorted one, next to
\* an entry whose read failed.
C1_Witness ==
  /\ Listed /\ OnlyPlainEntries
  /\ paths = <<Join(DirPath, NameBLas), Join(DirPath, NameALas)>>
  /\ \E e \in fs.entries : ~e.ok

\* The feature expected for a listed path whose header held bounds b.
BaseName(path) == EntryOf(path).name
FeatureMatches(f, path) ==
  /\ DOMAIN f.fields = {"name", "path"}
  /\ f.fields["name"] = ToStringLossy(BaseName(path))
  /\ f.fields["path"] = ToStringLossy(path)

\* C2: a run that completes has, in its single layer "bounds", exactly one
\* feature per listed path, in listed order, with name the base file name and
\* path the full path of that listed path; it exits with 0 (also when no
\* path was listed).
C2_OneFeaturePerPath ==
  pc = "done" =>
     /\ exitCode = Some(0)
     /\ IsSome(ds) /\ Len(ds[1].layers) = 1
     /\ TheLayer.name = "bounds"
     /\ Len(Features) = Len(paths)
     /\ \A k \in 1..Len(paths) : FeatureMatches(Features[k], paths[k])

C2_Witness ==
  /\ pc = "done"
  /\ Len(paths) = MaxEntries
  /\ Len(Features) = MaxEntries

\* The backend was asked and did not resolve the code.
SrsFailed == resolverCalls > 0 /\ srs = None

\* C3: when the EPSG code is not resolved, the run has aborted and no dataset
\* exists, the directory was not scanned and no file was read.
C3_SrsAbortFirst ==
  SrsFailed =>
     /\ pc = "failed"
     /\ exitCode = Some(1)
     /\ ds = None
     /\ ~scanned
     /\ opened = <<>>
     /\ stdout = <<>>

C3_Witness == SrsFailed /\ pc = "failed" /\ err[1].kind = "GdalError"

\* The run failed while processing a listed file.
FailedInLoop == pc = "failed" /\ Listed

\* C4: a header that cannot be read aborts the run at once; when the k-th
\* listed file fails (k = i + 1), the exit status is not 0, the files read
\* are exactly the first k, and the layer holds the k - 1 features of the
\* files before it, in listed order.
C4_FailFast ==
  /\ \A k \in 1..Len(opened) :
        ~IsSome(opened[k].header) => (pc = "failed" /\ k = Len(opened))
  /\ FailedInLoop =>
       /\ exitCode = Some(1)
       /\ IsSome(err)
       /\ i < Len(paths)
       /\ Len(opened) = i + 1
       /\ \A k \in 1..(i + 1) : opened[k].path = paths[k]
       /\ Len(stdout) = i + 1
       /\ Len(Features) = i
       /\ \A k \in 1..i :
            /\ FeatureMatches(Features[k], paths[k])
            /\ IsSome(opened[k].header)
            /\ Features[k].geometry =
                 Bbox(opened[k].header[1].min[1], opened[k].header[1].min[2],
                      opened[k].header[1].max[1], opened[k].header[1].max[2])

\* The second of three listed files failed.
C4_Witness ==
  /\ FailedInLoop
  /\ i = 1
  /\ Len(paths) > i + 1
  /\ Len(Features) = 1

\* C6: list_las returns no directory and nothing beneath one, and no
\* directory is handed to write_bounds.
C6_NoDirectories ==
  /\ \A k \in 1..Len(paths) :
       /\ ~EntryOf(paths[k]).isDir
       /\ \A e \in fs.entries : \A c \in e.children :
            paths[k] # Join(Join(DirPath, e.name), c)
  /\ \A k \in 1..Len(opened) : ~EntryOf(opened[k].path).isDir

\* sub occurs in msg
Contains(msg, sub) ==
  \E k \in 1..(Len(msg) - Len(sub) + 1) : SubSeq(msg, k, k + Len(sub) - 1) = sub

NamesStage(msg) == \E st \in {"scan", "read", "write"} : Contains(msg, Str(st))

\* C7: the message of every aborting error names the stage, and the file
\* that caused it when a file did.
C7_ErrorNamesStageAndFile ==
  pc = "failed" =>
     /\ NamesStage(stderr)
     /\ FailedInLoop => Contains(stderr, ToStringLossy(paths[i + 1]))

\* C8: the dataset has at most one layer; a layer that holds a feature has
\* the schema (name, path), both strings, each declared once; every feature
\* has values for exactly these two fields; and no step changes the schema
\* of a layer that has left create_layer.
C8_SchemaState ==
  /\ IsSome(ds) => Len(ds[1].layers) <= 1
  /\ HasLayer =>
       /\ TheLayer.name = "bounds"
       /\ Len(TheLayer.defn) <= Len(FieldDefs)
       /\ TheLayer.defn = SubSeq(FieldDefs, 1, Len(TheLayer.defn))
       /\ Features # <<>> =>
            /\ [k \in 1..Len(TheLayer.defn) |-> TheLayer.defn[k].name]
                 = <<"name", "path">>
            /\ \A k \in 1..Len(TheLayer.defn) : TheLayer.defn[k].type = "OFTString"
       /\ \A k \in 1..Len(Features) :
            DOMAIN Features[k].fields = {TheLayer.defn[j].name : j \in 1..Len(TheLayer.defn)}

C8_SchemaBeforeFeatures ==
  /\ []C8_SchemaState
  /\ [][HasLayer =>
          /\ HasLayer'
          /\ Len(ds'[1].layers) = 1
          /\ TheLayer'.defn = TheLayer.defn
          /\ TheLayer'.name = TheLayer.name
          /\ TheLayer'.srs = TheLayer.srs]_vars

C8_Witness ==
  /\ HasLayer
  /\ Len(Features) = 2
  /\ TheLayer.defn = FieldDefs

\* C9: the directory is read only once the dataset and its layer with both
\* fields exist; when the directory cannot be opened the run aborts with an
\* I/O error and the dataset exists with a layer of zero features.
C9_ScanAfterCreate ==
  /\ scanned =>
       /\ HasLayer
       /\ Len(ds[1].layers) = 1
       /\ TheLayer.defn = FieldDefs
  /\ (scanned /\ ~fs.opens) =>
       /\ pc = "failed"
       /\ exitCode = Some(1)
       /\ err[1].kind = "IOError"
       /\ Features = <<>>
       /\ opened = <<>>

C9_Witness == scanned /\ ~fs.opens /\ HasLayer /\ pc = "failed"

\* The --epsg values that are not an unsigned 32-bit integer: non-numeric,
\* negative, empty, and 2^32.
NotU32 ==
  { <<"a">>, <<"-", "1">>, <<>>,
    <<"4", "2", "9", "4", "9", "6", "7", "2", "9", "6">> }

Unparsable == IsSome(args.epsg) /\ args.epsg[1] \in NotU32

\* C10: an --epsg value that is not a u32 behaves like an absent one: the
\* resolver is never called, the run does not abort on the spatial
\* reference, and the layer is created without a coordinate system; a
\* spatial-reference abort happens only for a value that is a u32.
C10_BadEpsgIgnored ==
  /\ Unparsable =>
       /\ resolverCalls = 0
       /\ srs = None
       /\ pc = "failed" => err[1] # GdalError(Str("from_epsg"))
       /\ HasLayer => TheLayer.srs = None
  /\ SrsFailed => (IsSome(args.epsg) /\ args.epsg[1] \notin NotU32)

C10_Witness ==
  /\ Unparsable
  /\ args.epsg[1] = <<"4", "2", "9", "4", "9", "6", "7", "2", "9", "6">>
  /\ HasLayer
  /\ TheLayer.srs = None
  /\ pc = "done"

====
